---- MODULE Spec2Model ----
(***************************************************************************)
(* fernspielapparat: the state transition engine, the Act lifecycle of a   *)
(* Sound over a latency-compensated Player, and the decoding of remote     *)
(* control requests.                                                       *)
(*                                                                         *)
(* Durations and playback positions are whole milliseconds.  An Instant is *)
(* kept as its age, the time elapsed since it was taken, which is all the  *)
(* code ever reads of it (Instant::elapsed); an age saturates once it has   *)
(* passed every duration it is compared with.                              *)
(***************************************************************************)
EXTENDS Integers, Sequences, FiniteSets, TLC

VARIABLES
    book,      \* engine: index of the active graph
    cur,       \* engine: index of the current State in the active graph
    enterAge,  \* engine: age of the instant the current State was entered
    queue,     \* engine: Inputs dialed and not yet fed
    snd,       \* the Sounds (each with its Player and its driver), by index
    last,      \* history: what the step just taken did in the engine
    lastCall,  \* history: the Act call just made on Sound 1 and its result
    rawRequest, \* a raw request, decoded from YAML
    request     \* the request compiled from it, once it is

vars == <<book, cur, enterAge, queue, snd, last, lastCall, rawRequest, request>>

\* ------------------------------------------------------------- bounds
\* Time advances in steps of TimeStep milliseconds.
TimeStep == 25
\* The age of the entry into a State saturates here, beyond every timeout.
Horizon == 100
\* Longest queue of dialed Inputs.
MaxQueue == 1
\* Longest dial string decoded.
MaxDialLen == 3
\* Milliseconds of media played per step of the driver.
PlayStep == 1

\* ------------------------------------------------------------ options
None == <<>>
Some(x) == <<x>>
IsSome(o) == o # <<>>
Unwrap(o) == o[1]

Min(a, b) == IF a < b THEN a ELSE b
Max(a, b) == IF a > b THEN a ELSE b

\* The age, dt milliseconds later, of an instant of age a; an age saturates
\* at cap, the largest duration it is compared with or more.
Aged(a, dt, cap) == IF a + dt > cap THEN cap ELSE a + dt

\* ------------------------------------------------------------- Player
PAUSE_DIRTY_TIMEOUT == 50

VlcStates ==
    {"NothingSpecial", "Opening", "Buffering", "Playing",
     "Paused", "Stopped", "Ended", "Error"}

\* What the driver answers in one call: whether MediaPlayer::play succeeds
\* and what MediaPlayer::can_pause reports.
DriverAnswers == [playOk : BOOLEAN, canPause : BOOLEAN]

\* Sound::from_spec over Player::new: not activated, no request recorded, the
\* driver idle at position 0.  vreq and vreqAge are the driver's own record
\* of the last play or pause request it accepted.  calls lists the Player
\* methods entered during the Act call in progress, in order.  cancelled
\* is the record of the last cancel() that returned Ok, while no activate()
\* has followed it: its age and whether its pause was skipped.
NewSound(spec, duration) ==
    [spec |-> spec, activated |-> FALSE, duration |-> duration,
     last_pause_request |-> None,
     vstate |-> "NothingSpecial", vtime |-> 0, vpend |-> "none",
     vreq |-> "none", vreqAge |-> 0, calls |-> <<>>, cancelled |-> None]

\* A Player method is entered: op is "play", "pause" or "seek", arg the seek
\* target (0 for the others).
Entered(S, op, arg) == [S EXCEPT !.calls = Append(@, [op |-> op, arg |-> arg])]

\* The Act call is over: the Sound as it rests between calls.
Returned(S) == [S EXCEPT !.calls = <<>>]

\* Mutant: the dirty window includes its end.
PlayerPlaying_inclusive(S) ==
    IF IsSome(S.last_pause_request)
       /\ Unwrap(S.last_pause_request).at <= PAUSE_DIRTY_TIMEOUT
    THEN ~Unwrap(S.last_pause_request).paused
    ELSE S.vstate \in {"Opening", "Buffering", "Playing"}

PlayerPlaying(S) ==
    IF IsSome(S.last_pause_request)
       /\ Unwrap(S.last_pause_request).at < PAUSE_DIRTY_TIMEOUT
    THEN ~Unwrap(S.last_pause_request).paused
    ELSE CASE S.vstate \in {"Opening", "Buffering", "Playing"} -> TRUE
           [] S.vstate \in {"NothingSpecial", "Paused", "Stopped",
                            "Ended", "Error"} -> FALSE

\* A call's outcome: the Sound after it and "ok", "err" or "panic".
Outcome(S, res) == [s |-> S, res |-> res]

\* Mutant: the play request is not recorded.
PlayerPlay_unrecorded(S0, e) ==
    LET S == Entered(S0, "play", 0)
    IN  IF PlayerPlaying(S) THEN Outcome(S, "ok")
        ELSE IF ~e.playOk THEN Outcome(S, "err")
        ELSE Outcome([S EXCEPT !.vpend = "play",
                               !.vreq = "play", !.vreqAge = 0], "ok")

PlayerPlay(S0, e) ==
    LET S == Entered(S0, "play", 0)
    IN  IF PlayerPlaying(S) THEN Outcome(S, "ok")
        ELSE IF ~e.playOk THEN Outcome(S, "err")
        ELSE Outcome([S EXCEPT !.vpend = "play",
                               !.vreq = "play", !.vreqAge = 0,
                               !.last_pause_request =
                                   Some([at |-> 0, paused |-> FALSE])], "ok")

\* Mutant: the pause request is not recorded.
PlayerPause_unrecorded(S0, e) ==
    LET S == Entered(S0, "pause", 0)
    IN  IF ~PlayerPlaying(S) THEN Outcome(S, "ok")
        ELSE IF ~e.canPause THEN Outcome(S, "err")
        ELSE Outcome([S EXCEPT !.vpend = "pause",
                               !.vreq = "pause", !.vreqAge = 0], "ok")

PlayerPause(S0, e) ==
    LET S == Entered(S0, "pause", 0)
    IN  IF ~PlayerPlaying(S) THEN Outcome(S, "ok")
        ELSE IF ~e.canPause THEN Outcome(S, "err")
        ELSE Outcome([S EXCEPT !.vpend = "pause",
                               !.vreq = "pause", !.vreqAge = 0,
                               !.last_pause_request =
                                   Some([at |-> 0, paused |-> TRUE])], "ok")

PlayerPlayed(S) == S.vtime

PlayerDuration(S) == S.duration

\* Mutant: the target is not clamped to the duration.
PlayerSeek_unclamped(S, from_start) ==
    [Entered(S, "seek", from_start) EXCEPT !.vtime = from_start]

PlayerSeek(S, from_start) ==
    [Entered(S, "seek", from_start) EXCEPT
        !.vtime = Min(PlayerDuration(S), from_start)]

\* -------------------------------------------------------------- Sound
Backoff(d) == [kind |-> "Backoff", d |-> d]
Seek(d) == [kind |-> "Seek", d |-> d]

SoundSpec(loop, start_offset, reenter) ==
    [is_loop |-> loop, start_offset |-> start_offset,
     reenter_behavior |-> reenter]

\* Mutant: the activated flag is not tested.
ensure_loop_if_active_any(S, e) ==
    IF S.spec.is_loop /\ ~PlayerPlaying(S)
    THEN PlayerPlay(S, e)
    ELSE Outcome(S, "ok")

ensure_loop_if_active(S, e) ==
    IF S.activated /\ S.spec.is_loop /\ ~PlayerPlaying(S)
    THEN PlayerPlay(S, e)
    ELSE Outcome(S, "ok")

rewind_unless_already_active(S) ==
    IF ~S.activated THEN PlayerSeek(S, S.spec.start_offset) ELSE S

\* Division by a zero duration panics.
duration_mod(duration, max_duration) ==
    IF max_duration = 0 THEN None ELSE Some(duration % max_duration)

\* Mutant: a non-looping backoff is not held at the start offset.
seek_on_reenter_no_floor(S, was_active) ==
    IF was_active THEN Outcome(S, "ok")
    ELSE LET r == S.spec.reenter_behavior IN
         CASE S.spec.is_loop /\ r.kind = "Backoff" ->
                LET duration == PlayerDuration(S)
                    backoff == duration_mod(r.d, duration)
                    played == PlayerPlayed(S)
                IN  IF ~IsSome(backoff) THEN Outcome(S, "panic")
                    ELSE IF Unwrap(backoff) > played
                    THEN Outcome(PlayerSeek(S,
                            duration - (Unwrap(backoff) - played)), "ok")
                    ELSE Outcome(PlayerSeek(S, played - Unwrap(backoff)), "ok")
           [] ~S.spec.is_loop /\ r.kind = "Backoff" ->
                LET start_offset == S.spec.start_offset
                    sub == IF PlayerPlayed(S) >= r.d
                           THEN PlayerPlayed(S) - r.d
                           ELSE start_offset
                IN  Outcome(PlayerSeek(S, sub), "ok")
           [] r.kind = "Seek" -> Outcome(PlayerSeek(S, r.d), "ok")

\* Mutant: a warm activation seeks too.
seek_on_reenter_always(S, was_active) ==
    IF FALSE THEN Outcome(S, "ok")
    ELSE LET r == S.spec.reenter_behavior IN
         CASE S.spec.is_loop /\ r.kind = "Backoff" ->
                LET duration == PlayerDuration(S)
                    backoff == duration_mod(r.d, duration)
                    played == PlayerPlayed(S)
                IN  IF ~IsSome(backoff) THEN Outcome(S, "panic")
                    ELSE IF Unwrap(backoff) > played
                    THEN Outcome(PlayerSeek(S,
                            duration - (Unwrap(backoff) - played)), "ok")
                    ELSE Outcome(PlayerSeek(S, played - Unwrap(backoff)), "ok")
           [] ~S.spec.is_loop /\ r.kind = "Backoff" ->
                LET start_offset == S.spec.start_offset
                    sub == IF PlayerPlayed(S) >= r.d
                           THEN PlayerPlayed(S) - r.d
                           ELSE start_offset
                IN  Outcome(PlayerSeek(S, Max(start_offset, sub)), "ok")
           [] r.kind = "Seek" -> Outcome(PlayerSeek(S, r.d), "ok")

seek_on_reenter(S, was_active) ==
    IF was_active THEN Outcome(S, "ok")
    ELSE LET r == S.spec.reenter_behavior IN
         CASE S.spec.is_loop /\ r.kind = "Backoff" ->
                LET duration == PlayerDuration(S)
                    backoff == duration_mod(r.d, duration)
                    played == PlayerPlayed(S)
                IN  IF ~IsSome(backoff) THEN Outcome(S, "panic")
                    ELSE IF Unwrap(backoff) > played
                    THEN Outcome(PlayerSeek(S,
                            duration - (Unwrap(backoff) - played)), "ok")
                    ELSE Outcome(PlayerSeek(S, played - Unwrap(backoff)), "ok")
           [] ~S.spec.is_loop /\ r.kind = "Backoff" ->
                LET start_offset == S.spec.start_offset
                    sub == IF PlayerPlayed(S) >= r.d
                           THEN PlayerPlayed(S) - r.d
                           ELSE start_offset
                IN  Outcome(PlayerSeek(S, Max(start_offset, sub)), "ok")
           [] r.kind = "Seek" -> Outcome(PlayerSeek(S, r.d), "ok")

\* Mutant: the rewind is decided before the flag is set.
SoundActivate_rewinds_first(S, e) ==
    LET was_active == S.activated
        S1 == rewind_unless_already_active(S)
        S2 == [S1 EXCEPT !.activated = TRUE]
        p == PlayerPlay(S2, e)
    IN  IF p.res # "ok" THEN p ELSE seek_on_reenter(p.s, was_active)

\* Mutant: a failed play takes the flag back.
SoundActivate_inactive_on_failure(S, e) ==
    LET was_active == S.activated
        S1 == [S EXCEPT !.activated = TRUE]
        S2 == rewind_unless_already_active(S1)
        p == PlayerPlay(S2, e)
    IN  IF p.res # "ok"
        THEN Outcome([p.s EXCEPT !.activated = FALSE], p.res)
        ELSE seek_on_reenter(p.s, was_active)

SoundActivate(S, e) ==
    LET was_active == S.activated
        S1 == [S EXCEPT !.activated = TRUE]
        S2 == rewind_unless_already_active(S1)
        p == PlayerPlay(S2, e)
    IN  IF p.res # "ok" THEN p ELSE seek_on_reenter(p.s, was_active)

SoundUpdate(S, e) == ensure_loop_if_active(S, e)

\* Mutant: the negation is lost.
SoundDone_inverted(S) == PlayerPlaying(S)

SoundDone(S) == ~PlayerPlaying(S)

\* Mutant: the flag is cleared only when the pause succeeded.
SoundCancel_flag_after_pause(S, e) ==
    LET p == PlayerPause(S, e)
    IN  IF p.res # "ok" THEN p
        ELSE Outcome([p.s EXCEPT !.activated = FALSE], p.res)

\* Mutant: the flag is not cleared.
SoundCancel_keeps_activated(S, e) == PlayerPause(S, e)

SoundCancel(S, e) == PlayerPause([S EXCEPT !.activated = FALSE], e)

\* -------------------------------------------------------------- Input
Digit(n) == [kind |-> "digit", value |-> n]
HangUp == [kind |-> "hang_up", value |-> 0]
PickUp == [kind |-> "pick_up", value |-> 0]

\* Input::digit: fails outside 0..9.
InputDigit(n) == IF n >= 0 /\ n <= 9 THEN Some(Digit(n)) ELSE None

\* -------------------------------------------------------------- State
\* StateBuilder::new: the default State.
StateDefault ==
    [sounds |-> <<>>, input_transitions |-> <<>>,
     timeout_transition |-> None, transition_end |-> None,
     terminal |-> FALSE]

BuildInput(st, on_input, transition_to) ==
    [st EXCEPT !.input_transitions = (on_input :> transition_to) @@ @]

BuildTimeout(st, after_duration, transition_to) ==
    [st EXCEPT !.timeout_transition = Some(<<after_duration, transition_to>>)]

BuildEnd(st, transition_to) ==
    [st EXCEPT !.transition_end = Some(transition_to)]

BuildTerminal(st, is_terminal) == [st EXCEPT !.terminal = is_terminal]

BuildSounds(st, sounds) == [st EXCEPT !.sounds = sounds]

\* Mutant: only digits are looked up.
transition_for_input_digits_only(st, input) ==
    IF input.kind = "digit" /\ input \in DOMAIN st.input_transitions
    THEN Some(st.input_transitions[input])
    ELSE None

transition_for_input(st, input) ==
    IF input \in DOMAIN st.input_transitions
    THEN Some(st.input_transitions[input])
    ELSE None

\* Mutant: the timeout fires at the duration already.
transition_for_timeout_inclusive(st, enter_age) ==
    IF IsSome(st.timeout_transition)
       /\ enter_age >= Unwrap(st.timeout_transition)[1]
    THEN Some(Unwrap(st.timeout_transition)[2])
    ELSE None

\* enter_age is enter_time.elapsed().
transition_for_timeout(st, enter_age) ==
    IF IsSome(st.timeout_transition)
       /\ enter_age > Unwrap(st.timeout_transition)[1]
    THEN Some(Unwrap(st.timeout_transition)[2])
    ELSE None

transition_end(st) == st.transition_end

\* Mutant: the terminal flag is not read.
is_terminal_never(st) == FALSE

is_terminal(st) == st.terminal

\* ------------------------------------------------------------ Request
\* Characters are their code points.
CH_0 == 48
CH_9 == 57
CH_h == 104
CH_p == 112

\* The closure of the filter_map of Spec::compile; unwrap panics on a
\* failed Input::digit.
DigitPanics(c) == c >= CH_0 /\ c <= CH_9 /\ ~IsSome(InputDigit(c - CH_0))

\* Mutant: the digit range starts after '0'.
DecodeChar_skips_zero(c) ==
    CASE c > CH_0 /\ c <= CH_9 -> InputDigit(c - CH_0)
      [] c = CH_h -> Some(HangUp)
      [] c = CH_p -> Some(PickUp)
      [] OTHER -> None

DecodeChar(c) ==
    CASE c >= CH_0 /\ c <= CH_9 -> InputDigit(c - CH_0)
      [] c = CH_h -> Some(HangUp)
      [] c = CH_p -> Some(PickUp)
      [] OTHER -> None

RECURSIVE FilterMapCollect(_)
FilterMapCollect(chars) ==
    IF chars = <<>> THEN <<>>
    ELSE LET r == DecodeChar(Head(chars))
         IN  (IF IsSome(r) THEN <<Unwrap(r)>> ELSE <<>>)
                 \o FilterMapCollect(Tail(chars))

\* Spec::compile: the raw request compiled.  A Run request carries the
\* index of its compiled graph.
SpecCompile(spec) ==
    CASE spec.invoke = "run" -> [kind |-> "Run", with |-> spec.with]
      [] spec.invoke = "reset" -> [kind |-> "Reset", with |-> <<>>]
      [] spec.invoke = "dial" ->
            IF \E i \in DOMAIN spec.with : DigitPanics(spec.with[i])
            THEN [kind |-> "panic", with |-> <<>>]
            ELSE [kind |-> "Dial", with |-> FilterMapCollect(spec.with)]

SeqsUpTo(S, n) == UNION {[1..k -> S] : k \in 0..n}

\* -------------------------------------------------------------- Books
\* Two compiled graphs: States, the initial index and the Sounds with the
\* duration of their media.
Book1 ==
    [initial |-> 1,
     sounds |-> <<[spec |-> SoundSpec(FALSE, 0, Backoff(0)), duration |-> 2],
                  [spec |-> SoundSpec(TRUE, 0, Seek(0)), duration |-> 1]>>,
     states |-> <<
        BuildInput(BuildSounds(StateDefault, <<1>>), Digit(1), 2),
        BuildEnd(BuildTimeout(BuildInput(BuildInput(
            BuildSounds(StateDefault, <<2>>), Digit(1), 3), HangUp, 1),
            50, 3), 2),
        BuildTerminal(BuildEnd(BuildTimeout(BuildInput(
            StateDefault, HangUp, 1), 50, 1), 1), TRUE)>>]

Book2 ==
    [initial |-> 2,
     sounds |-> <<[spec |-> SoundSpec(FALSE, 0, Backoff(1)), duration |-> 1],
                  [spec |-> SoundSpec(FALSE, 1, Seek(1)), duration |-> 1]>>,
     states |-> <<
        BuildEnd(BuildTimeout(BuildInput(
            BuildSounds(StateDefault, <<1, 2>>), HangUp, 2), 50, 3), 2),
        BuildInput(StateDefault, Digit(1), 1),
        BuildTerminal(StateDefault, TRUE)>>]

Books == <<Book1, Book2>>

SoundIds == DOMAIN Book1.sounds

Range(f) == {f[x] : x \in DOMAIN f}

\* The Sounds a State owns.
Owned(b, i) == Range(Books[b].states[i].sounds)

FreshSounds(b) ==
    [s \in SoundIds |->
        NewSound(Books[b].sounds[s].spec, Books[b].sounds[s].duration)]

\* ------------------------------------------------------------ history
\* rule: what the step did ("input", "timeout", "completion" or "none" in a
\* tick, "run", "reset", or "env" for any other step); from: the State it
\* left; matched: the rules whose own condition held in the tick; errs: the
\* Sounds with a failed Act call; arg: the graph of a Run.
NoTick == [rule |-> "env", from |-> 0, matched |-> {}, errs |-> {}, arg |-> 0]

\* op: the Act call the step made on Sound 1 ("none" for any other step);
\* res: its result; val: what done() returned; pre: the Sound before it.
NoCall ==
    [op |-> "none", res |-> "ok", val |-> FALSE, pre |-> None, calls |-> <<>>]

\* A panic ends the process.
Crashed == lastCall.res = "panic"

\* ---------------------------------------------------------- Actuators
\* The driver's answers to the calls of one step of the engine: one answer,
\* given to every Sound called in the step.
Answers == {[s \in SoundIds |-> e] : e \in DriverAnswers}

\* The worse of two results.
Worse(r1, r2) == IF r1 = "ok" THEN r2 ELSE r1

\* Leave the States owning `out` and enter those owning `inc`: cancel every
\* Act of the outgoing State, then activate every Act of the incoming one.
Transit(snds, out, inc, env) ==
    [s \in SoundIds |->
        LET c == IF s \in out THEN SoundCancel(snds[s], env[s])
                 ELSE Outcome(snds[s], "ok")
            a == IF s \in inc THEN SoundActivate(c.s, env[s])
                 ELSE Outcome(c.s, "ok")
        IN  Outcome(a.s, Worse(c.res, a.res))]

\* update() on every Act of the current State.
UpdateAll(outs, active, env) ==
    [s \in SoundIds |->
        LET u == IF s \in active THEN SoundUpdate(outs[s].s, env[s])
                 ELSE Outcome(outs[s].s, "ok")
        IN  Outcome(u.s, Worse(outs[s].res, u.res))]

Unmoved(snds) == [s \in SoundIds |-> Outcome(snds[s], "ok")]

\* ------------------------------------------------------------- engine
\* The Input a tick feeds: the head of the queue; a terminal State is fed
\* nothing.
Fed(st, q) == IF is_terminal(st) \/ q = <<>> THEN None ELSE Some(Head(q))

\* The rule that fires in a tick and its target: input, then timeout, then
\* completion, the first that matches.
Resolve(st, fed, enter_age, snds) ==
    LET byInput == IF IsSome(fed) THEN transition_for_input(st, Unwrap(fed))
                   ELSE None
        byTimeout == transition_for_timeout(st, enter_age)
        byEnd == IF \A s \in Range(st.sounds) : SoundDone(snds[s])
                 THEN transition_end(st) ELSE None
    IN  IF is_terminal(st) THEN [rule |-> "none", target |-> None]
        ELSE IF IsSome(byInput) THEN [rule |-> "input", target |-> byInput]
        ELSE IF IsSome(byTimeout)
        THEN [rule |-> "timeout", target |-> byTimeout]
        ELSE IF IsSome(byEnd) THEN [rule |-> "completion", target |-> byEnd]
        ELSE [rule |-> "none", target |-> None]

\* The rules whose own condition holds, whatever their precedence.
Matched(st, fed, enter_age, snds) ==
    {x \in {"input"} :
        IsSome(fed) /\ Unwrap(fed) \in DOMAIN st.input_transitions}
    \cup {x \in {"timeout"} :
        IsSome(st.timeout_transition)
        /\ enter_age > Unwrap(st.timeout_transition)[1]}
    \cup {x \in {"completion"} :
        IsSome(st.transition_end)
        /\ \A s \in Range(st.sounds) : ~PlayerPlaying(snds[s])}

Tick(env) ==
    LET st == Books[book].states[cur]
        fed == Fed(st, queue)
        r == Resolve(st, fed, enterAge, snd)
        to == IF IsSome(r.target) THEN Unwrap(r.target) ELSE cur
        moved == IF IsSome(r.target)
                 THEN Transit(snd, Owned(book, cur), Owned(book, to), env)
                 ELSE Unmoved(snd)
        outs == UpdateAll(moved, Owned(book, to), env)
    IN  /\ cur' = to
        /\ enterAge' = IF IsSome(r.target) THEN 0 ELSE enterAge
        /\ queue' = IF IsSome(fed) THEN Tail(queue) ELSE queue
        /\ snd' = [s \in SoundIds |-> Returned(outs[s].s)]
        /\ last' = [rule |-> r.rule, from |-> cur,
                    matched |-> Matched(st, fed, enterAge, snd),
                    errs |-> {s \in SoundIds : outs[s].res # "ok"},
                    arg |-> 0]
        /\ UNCHANGED <<book, lastCall, rawRequest, request>>

\* Run(g): the active graph is replaced, with its own new Sounds, and its
\* initial State entered.
Run(g, env) ==
    LET cancelled == Transit(snd, Owned(book, cur), {}, env)
        outs == Transit(FreshSounds(g), {}, Owned(g, Books[g].initial), env)
    IN  /\ book' = g
        /\ cur' = Books[g].initial
        /\ enterAge' = 0
        /\ snd' = [s \in SoundIds |-> Returned(outs[s].s)]
        /\ last' = [NoTick EXCEPT !.rule = "run", !.from = cur, !.arg = g,
                       !.errs = {s \in SoundIds :
                                   Worse(cancelled[s].res, outs[s].res) # "ok"}]
        /\ UNCHANGED <<queue, lastCall, rawRequest, request>>

\* Mutant: the current index is kept.
Reset_keeps_index(env) ==
    /\ cur' = cur
    /\ enterAge' = 0
    /\ last' = [NoTick EXCEPT !.rule = "reset", !.from = cur]
    /\ UNCHANGED <<book, queue, snd, lastCall, rawRequest, request>>

\* Reset: the graph and its Sounds are kept, the initial State re-entered.
Reset(env) ==
    LET outs == Transit(snd, Owned(book, cur),
                        Owned(book, Books[book].initial), env)
    IN  /\ cur' = Books[book].initial
        /\ enterAge' = 0
        /\ snd' = [s \in SoundIds |-> Returned(outs[s].s)]
        /\ last' = [NoTick EXCEPT !.rule = "reset", !.from = cur,
                       !.errs = {s \in SoundIds : outs[s].res # "ok"}]
        /\ UNCHANGED <<book, queue, lastCall, rawRequest, request>>

\* Dial: the decoded Inputs are queued.
EngineChars == {CH_0 + 1, CH_h, CH_h - 1}

Dial(chars) ==
    LET req == SpecCompile([invoke |-> "dial", with |-> chars])
    IN  /\ Len(queue) + Len(req.with) <= MaxQueue
        /\ queue' = queue \o req.with
        /\ last' = NoTick
        /\ UNCHANGED <<book, cur, enterAge, snd, lastCall, rawRequest, request>>

\* -------------------------------------------------------- environment
AgeSound(S, dt) ==
    [S EXCEPT !.vreqAge = Aged(@, dt, PAUSE_DIRTY_TIMEOUT),
              !.last_pause_request =
                  IF IsSome(@)
                  THEN Some([Unwrap(@) EXCEPT !.at = Aged(@, dt, PAUSE_DIRTY_TIMEOUT)])
                  ELSE None,
              !.cancelled =
                  IF IsSome(@)
                  THEN Some([Unwrap(@) EXCEPT !.at = Aged(@, dt, PAUSE_DIRTY_TIMEOUT)])
                  ELSE None]

\* dt milliseconds pass.
Advance(dt) ==
    /\ ~Crashed
    /\ enterAge' = Aged(enterAge, dt, Horizon)
    /\ snd' = [s \in SoundIds |-> AgeSound(snd[s], dt)]
    /\ last' = NoTick
    /\ lastCall' = NoCall
    /\ UNCHANGED <<book, cur, queue, rawRequest, request>>

\* The driver's state once it has applied the pending request.
Applied(S) ==
    CASE S.vpend = "play" /\ S.vstate = "Paused" ->
            [S EXCEPT !.vpend = "none", !.vstate = "Playing"]
      [] S.vpend = "play" /\ S.vstate \in {"Opening", "Buffering", "Playing"} ->
            [S EXCEPT !.vpend = "none"]
      [] S.vpend = "play" /\ S.vstate \in {"NothingSpecial", "Stopped",
                                           "Ended", "Error"} ->
            [S EXCEPT !.vpend = "none", !.vstate = "Opening",
                      !.vtime = IF @ >= S.duration THEN 0 ELSE @]
      [] S.vpend = "pause" /\ S.vstate \in {"Opening", "Buffering", "Playing"} ->
            [S EXCEPT !.vpend = "none", !.vstate = "Paused"]
      [] OTHER -> [S EXCEPT !.vpend = "none"]

\* The driver's own progress: opening, buffering, playing to the end.
Progress(S) ==
    CASE S.vstate = "Opening" -> {[S EXCEPT !.vstate = "Buffering"],
                                  [S EXCEPT !.vstate = "Playing"]}
      [] S.vstate = "Buffering" -> {[S EXCEPT !.vstate = "Playing"]}
      [] S.vstate = "Playing" /\ S.vtime < S.duration ->
            {[S EXCEPT !.vtime = Min(S.duration, @ + PlayStep)]}
      [] S.vstate = "Playing" /\ S.vtime >= S.duration ->
            {[S EXCEPT !.vstate = "Ended"]}
      [] OTHER -> {}

DriverApply(s) ==
    /\ ~Crashed
    /\ snd[s].vpend # "none"
    /\ snd' = [snd EXCEPT ![s] = Applied(snd[s])]
    /\ last' = NoTick
    /\ lastCall' = NoCall
    /\ UNCHANGED <<book, cur, enterAge, queue, rawRequest, request>>

DriverProgress(s) ==
    /\ ~Crashed
    /\ \E S \in Progress(snd[s]) : snd' = [snd EXCEPT ![s] = S]
    /\ last' = NoTick
    /\ lastCall' = NoCall
    /\ UNCHANGED <<book, cur, enterAge, queue, rawRequest, request>>

\* ------------------------------------------------------ specification
NoRequest == [invoke |-> "reset", with |-> <<>>]

Init ==
    /\ book = 1
    /\ cur = Books[1].initial
    /\ enterAge = 0
    /\ queue = <<>>
    /\ \E env \in Answers :
          snd = [s \in SoundIds |->
                    Returned(Transit(FreshSounds(1), {},
                                     Owned(1, Books[1].initial), env)[s].s)]
    /\ last = NoTick
    /\ lastCall = NoCall
    /\ rawRequest = NoRequest
    /\ request = None

Next ==
    \/ \E env \in Answers : Tick(env)
    \/ \E g \in DOMAIN Books, env \in Answers : Run(g, env)
    \/ \E env \in Answers : Reset(env)
    \/ \E chars \in SeqsUpTo(EngineChars, MaxQueue) : Dial(chars)
    \/ Advance(2 * TimeStep)
    \/ \E s \in SoundIds : DriverApply(s)
    \/ \E s \in SoundIds : DriverProgress(s)

Spec == Init /\ [][Next]_vars

\* ------------------------------------------- one Sound, called directly
\* Largest start offset, backoff and seek target of the Sounds tried: past
\* the end of the longest media.
MaxOffset == 3
\* Longest media of the Sounds tried.
MaxDuration == 2

\* Start offsets, backoffs and seek targets tried.
Offsets == {0, 1, MaxOffset}

SoundSpecs ==
    {SoundSpec(l, o, r) :
        l \in BOOLEAN, o \in Offsets,
        r \in {Backoff(d) : d \in Offsets} \cup {Seek(d) : d \in Offsets}}

\* The Sound after the call op with outcome o: a cancel() that returned Ok
\* is noted, with whether Player::pause found playing() false and skipped
\* the request; an activate() ends the note.
Noted(op, pre, o) ==
    CASE op = "cancel" /\ o.res = "ok" ->
            [Returned(o.s) EXCEPT
                !.cancelled = Some([at |-> 0, noop |-> ~PlayerPlaying(pre)])]
      [] op = "activate" -> [Returned(o.s) EXCEPT !.cancelled = None]
      [] OTHER -> Returned(o.s)

Called(op, o, val) ==
    /\ snd' = [snd EXCEPT ![1] = Noted(op, snd[1], o)]
    /\ lastCall' = [op |-> op, res |-> o.res, val |-> val,
                    pre |-> Some(snd[1]), calls |-> o.s.calls]
    /\ UNCHANGED <<book, cur, enterAge, queue, last, rawRequest, request>>

CallActivate(e) == ~Crashed /\ Called("activate", SoundActivate(snd[1], e), FALSE)

CallUpdate(e) == ~Crashed /\ Called("update", SoundUpdate(snd[1], e), FALSE)

CallDone == ~Crashed /\ Called("done", Outcome(snd[1], "ok"), SoundDone(snd[1]))

CallCancel(e) == ~Crashed /\ Called("cancel", SoundCancel(snd[1], e), FALSE)

InitSound ==
    /\ book = 1
    /\ cur = Books[1].initial
    /\ enterAge = 0
    /\ queue = <<>>
    /\ \E spec \in SoundSpecs, duration \in {0, MaxDuration} :
          snd = [FreshSounds(1) EXCEPT ![1] = NewSound(spec, duration)]
    /\ last = NoTick
    /\ lastCall = NoCall
    /\ rawRequest = NoRequest
    /\ request = None

NextSound ==
    \/ \E e \in DriverAnswers : CallActivate(e)
    \/ \E e \in DriverAnswers : CallUpdate(e)
    \/ CallDone
    \/ \E e \in DriverAnswers : CallCancel(e)
    \/ Advance(TimeStep)
    \/ DriverApply(1)
    \/ DriverProgress(1)

SpecSound == InitSound /\ [][NextSound]_vars

\* ------------------------------------------------- requests, compiled
DialChars == {CH_0 - 1, CH_0, CH_0 + 1, CH_9, CH_9 + 1, CH_h, CH_p,
              CH_h - 32, CH_0 - 16}

RawRequests ==
    {[invoke |-> "dial", with |-> w] : w \in SeqsUpTo(DialChars, MaxDialLen)}
    \cup {[invoke |-> "run", with |-> g] : g \in DOMAIN Books}
    \cup {[invoke |-> "reset", with |-> <<>>]}

\* Request::decode, from the raw request on.
Decode ==
    /\ request = None
    /\ request' = Some(SpecCompile(rawRequest))
    /\ UNCHANGED <<book, cur, enterAge, queue, snd, last, lastCall, rawRequest>>

InitRequest ==
    /\ book = 1
    /\ cur = Books[1].initial
    /\ enterAge = 0
    /\ queue = <<>>
    /\ snd = FreshSounds(1)
    /\ last = NoTick
    /\ lastCall = NoCall
    /\ rawRequest \in RawRequests
    /\ request = None

NextRequest == Decode

SpecRequest == InitRequest /\ [][NextRequest]_vars

\* ------------------------------------------------------------- claims
TickRules == {"input", "timeout", "completion", "none"}

CurState == Books[book].states[cur]

\* The head of the queue has an input-transition in the current State.
InputMatches ==
    queue # <<>> /\ Head(queue) \in DOMAIN CurState.input_transitions

\* C1: in a tick of a State that is not terminal, a pending Input with an
\* input-transition in the current State is fed and the engine moves to the
\* configured target, by the input rule alone, also when the timeout has
\* elapsed and every Act is done.
C1_InputFirst ==
    [][(last'.rule \in TickRules /\ ~CurState.terminal /\ InputMatches)
        => /\ last'.rule = "input"
           /\ cur' = CurState.input_transitions[Head(queue)]
           /\ queue' = Tail(queue)]_vars

C1_Witness ==
    /\ last.rule = "input"
    /\ {"timeout", "completion"} \subseteq last.matched
    /\ cur = Books[book].states[last.from].input_transitions[HangUp]

C3_CompletionOnlyWhenAllDone ==
    [][last'.rule = "completion"
        => /\ \A s \in Owned(book, cur) : ~PlayerPlaying(snd[s])
           /\ IsSome(CurState.transition_end)
           /\ cur' = Unwrap(CurState.transition_end)]_vars

C3_Witness ==
    /\ last.rule = "completion"
    /\ Cardinality(Owned(book, last.from)) = 2
    /\ cur = Unwrap(Books[book].states[last.from].transition_end)

\* C4: in a terminal State no input, timeout or completion transition
\* fires and the current index stays; only Run and Reset change it.
C4_TerminalStays ==
    [][CurState.terminal
        => \/ last'.rule \in {"run", "reset"}
           \/ /\ cur' = cur
              /\ book' = book
              /\ last'.rule \notin {"input", "timeout", "completion"}]_vars

C4_Witness ==
    /\ CurState.terminal
    /\ last.rule = "none"
    /\ InputMatches
    /\ IsSome(CurState.timeout_transition)
    /\ enterAge > Unwrap(CurState.timeout_transition)[1]
    /\ IsSome(CurState.transition_end)

\* C5: every activated Act belongs to the current State.
C5_ActivatedOnlyInCurrent ==
    \A s \in SoundIds : snd[s].activated => s \in Owned(book, cur)

C5_Witness ==
    /\ last.rule \in {"input", "timeout", "completion"}
    /\ Owned(book, last.from) # {}
    /\ Owned(book, cur) # {}
    /\ Owned(book, last.from) \cap Owned(book, cur) = {}
    /\ \A s \in Owned(book, cur) : snd[s].activated
    /\ \A s \in Owned(book, last.from) : ~snd[s].activated

\* C6: after Run(g) the active graph is g and the current index its initial
\* index; after Reset the graph is the same and the current index its
\* initial index.
C6_RunAndReset ==
    [][/\ last'.rule = "run"
            => book' = last'.arg /\ cur' = Books[last'.arg].initial
       /\ last'.rule = "reset"
            => book' = book /\ cur' = Books[book].initial]_vars

C6_Witness ==
    /\ last.rule = "reset"
    /\ Books[book].states[last.from].terminal
    /\ cur = Books[book].initial
    /\ cur # last.from

\* C7: after a Reset, every Sound the Reset activates without an error has
\* its playback position at its start offset.
C7_ResetRewinds ==
    (last.rule = "reset" /\ last.errs = {})
        => \A s \in Owned(book, cur) :
              snd[s].vtime = Min(snd[s].duration, snd[s].spec.start_offset)

\* C8: a dial string compiles to the Inputs of its digits, 'h' and 'p', in
\* their order, every other character dropped, and never fails.
KeptChar(c) == c \in {48, 49, 50, 51, 52, 53, 54, 55, 56, 57, 104, 112}

CharInput(c) ==
    IF c = 104 THEN HangUp ELSE IF c = 112 THEN PickUp ELSE Digit(c - 48)

C8_DialDecoded ==
    (IsSome(request) /\ rawRequest.invoke = "dial")
        => LET kept == SelectSeq(rawRequest.with, KeptChar)
           IN  /\ Unwrap(request).kind = "Dial"
               /\ Len(Unwrap(request).with) = Len(kept)
               /\ \A i \in 1..Len(kept) :
                     Unwrap(request).with[i] = CharInput(kept[i])

C8_Witness ==
    /\ rawRequest = [invoke |-> "dial", with |-> <<57, 32, 104>>]
    /\ request = Some([kind |-> "Dial", with |-> <<Digit(9), HangUp>>])

\* C9: right after a successful cancel() of a Sound, done() is true,
\* whatever the driver reports.
C9_DoneAfterCancel ==
    (lastCall.op = "cancel" /\ lastCall.res = "ok") => SoundDone(snd[1])

C9_Witness ==
    /\ lastCall.op = "cancel"
    /\ lastCall.res = "ok"
    /\ Unwrap(lastCall.pre).activated
    /\ PlayerPlaying(Unwrap(lastCall.pre))
    /\ snd[1].vstate = "Playing"
    /\ SoundDone(snd[1])

\* C10: less than 50 ms after a play or pause request the driver accepted,
\* playing() is the requested state; from 50 ms on it is true exactly when
\* the driver is Opening, Buffering or Playing.
C10_PlayingCompensated ==
    \A s \in SoundIds :
        snd[s].vreq # "none"
            => IF snd[s].vreqAge < 50
               THEN PlayerPlaying(snd[s]) = (snd[s].vreq = "play")
               ELSE PlayerPlaying(snd[s])
                       = (snd[s].vstate \in {"Opening", "Buffering", "Playing"})

C10_Witness ==
    /\ snd[1].vreq = "pause"
    /\ snd[1].vreqAge > 0
    /\ snd[1].vreqAge < 50
    /\ snd[1].vstate = "Playing"
    /\ ~PlayerPlaying(snd[1])

\* The Sound before the Act call just made, and its re-entry policy.
Before == Unwrap(lastCall.pre)

Policy == snd[1].spec.reenter_behavior

\* The Act call just made was an activate() of a Sound not activated
\* (cold) that returned Ok.
ColdActivated ==
    /\ lastCall.op = "activate"
    /\ lastCall.res = "ok"
    /\ ~Before.activated

\* The Player methods the call just made entered, by name.
CalledOps == [i \in 1..Len(lastCall.calls) |-> lastCall.calls[i].op]

\* C11 (as stated): with Seek(to), right after every cold activate() the
\* position is to, for every to and every prior position.
C11_SeekLandsOnTarget ==
    (ColdActivated /\ Policy.kind = "Seek") => snd[1].vtime = Policy.d

\* C11 (amended): with Seek(to), right after every cold activate() that
\* returned Ok the position is to, or the duration when to lies past it.
C11_SeekClamped ==
    (ColdActivated /\ Policy.kind = "Seek")
        => /\ lastCall.calls[Len(lastCall.calls)]
                 = [op |-> "seek", arg |-> Policy.d]
           /\ snd[1].vtime = IF Policy.d > snd[1].duration
                             THEN snd[1].duration ELSE Policy.d

C11_Witness ==
    /\ ColdActivated
    /\ Policy = Seek(MaxOffset)
    /\ snd[1].duration = MaxDuration
    /\ Before.vtime = 1
    /\ snd[1].vtime = MaxDuration

\* C12 (as stated): a Sound that does not loop, with Backoff(b), is right
\* after a cold activate() at max(start_offset, played - b), played the
\* position before the call; at start_offset when played < b; never before
\* start_offset.
C12_BackoffFromPlayed ==
    (ColdActivated /\ ~snd[1].spec.is_loop /\ Policy.kind = "Backoff")
        => /\ snd[1].vtime = Max(snd[1].spec.start_offset,
                                 Before.vtime - Policy.d)
           /\ Before.vtime < Policy.d
                 => snd[1].vtime = snd[1].spec.start_offset
           /\ snd[1].vtime >= snd[1].spec.start_offset

\* C12 (amended): the same, the position held at the duration when
\* start_offset lies past it.
C12_BackoffClamped ==
    (ColdActivated /\ ~snd[1].spec.is_loop /\ Policy.kind = "Backoff")
        => LET floored == IF Before.vtime - Policy.d
                                > snd[1].spec.start_offset
                          THEN Before.vtime - Policy.d
                          ELSE snd[1].spec.start_offset
           IN  snd[1].vtime = IF floored > snd[1].duration
                              THEN snd[1].duration ELSE floored

C12_Witness ==
    /\ ColdActivated
    /\ ~snd[1].spec.is_loop
    /\ Policy = Backoff(1)
    /\ snd[1].spec.start_offset = 0
    /\ Before.vtime = 2
    /\ snd[1].vtime = 1

\* C13: a looping Sound with Backoff(b), media of duration dur, at played
\* in 0..dur, is sought by a cold activate() to dur - (b' - played) when
\* b' > played and to played - b' otherwise, b' = b mod dur; this is defined
\* for every dur the Player reports and lies in 0..dur.
C13_LoopBackoffWraps ==
    (/\ lastCall.op = "activate"
     /\ lastCall.res # "err"
     /\ ~Before.activated
     /\ snd[1].spec.is_loop
     /\ Policy.kind = "Backoff")
        => /\ lastCall.res = "ok"
           /\ snd[1].vtime \in 0..snd[1].duration
           /\ snd[1].duration > 0
                 => LET dur == snd[1].duration
                        b == Policy.d % dur
                    IN  snd[1].vtime = IF b > Before.vtime
                                       THEN dur - (b - Before.vtime)
                                       ELSE Before.vtime - b

\* C14: a warm activate() (the Sound already activated) enters no seek and
\* leaves the position as it was, whatever the policy; a Sound whose
\* playing() is true is sent no request.
C14_WarmKeepsPosition ==
    (lastCall.op = "activate" /\ Before.activated)
        => /\ CalledOps = <<"play">>
           /\ snd[1].vtime = Before.vtime
           /\ PlayerPlaying(Before) => snd[1] = Before

C14_Witness ==
    /\ lastCall.op = "activate"
    /\ lastCall.res = "ok"
    /\ Before.activated
    /\ Before.vstate = "Playing"
    /\ PlayerPlaying(Before)
    /\ Policy = Seek(0)
    /\ snd[1].spec.start_offset = 0
    /\ snd[1].vtime = 1

\* C15: cancel() leaves the position where it is, and a cold activate() of
\* a Sound that does not loop, with Backoff(0), found at a position p not
\* before start_offset, resumes at p: over any number of cancel/activate
\* cycles the Sound is rewound neither to start_offset nor to 0.
C15_PositionKept ==
    /\ lastCall.op = "cancel"
          => /\ snd[1].vtime = Before.vtime
             /\ \A i \in 1..Len(CalledOps) : CalledOps[i] # "seek"
    /\ (/\ ColdActivated
        /\ ~snd[1].spec.is_loop
        /\ Policy = Backoff(0)
        /\ Before.vtime >= snd[1].spec.start_offset)
          => /\ snd[1].vtime = Before.vtime
             /\ ~SoundDone(snd[1])

C15_Witness ==
    /\ ColdActivated
    /\ ~snd[1].spec.is_loop
    /\ Policy = Backoff(0)
    /\ snd[1].spec.start_offset = 0
    /\ Before.last_pause_request = Some([at |-> 0, paused |-> TRUE])
    /\ Before.vtime = 1
    /\ snd[1].vtime = 1

\* C16 (as stated): after an activate() that failed because the Player
\* failed, the activated flag is false.
C16_FailedActivateInactive ==
    (lastCall.op = "activate" /\ lastCall.res = "err") => ~snd[1].activated

\* C16 (amended): after an activate() that failed because Player::play
\* failed, the activated flag is true, nothing was sought or requested, and
\* an update() of a looping Sound would enter Player::play again.
C16_FailedActivateStaysActivated ==
    (lastCall.op = "activate" /\ lastCall.res = "err")
        => /\ snd[1].activated
           /\ CalledOps = <<"play">>
           /\ snd[1].vtime = Before.vtime
           /\ snd[1].vpend = Before.vpend
           /\ \A e \in DriverAnswers :
                 LET calls == SoundUpdate(snd[1], e).s.calls
                 IN  IF snd[1].spec.is_loop
                     THEN calls = <<[op |-> "play", arg |-> 0]>>
                     ELSE calls = <<>>

C16_Witness ==
    /\ lastCall.op = "activate"
    /\ lastCall.res = "err"
    /\ ~Before.activated
    /\ snd[1].spec.is_loop
    /\ snd[1].activated

\* One step keeps the activated flag in line with the last lifecycle call.
FlagStep ==
    CASE lastCall'.op = "activate" -> snd'[1].activated
      [] lastCall'.op = "cancel" -> ~snd'[1].activated
      [] OTHER -> snd'[1].activated = snd[1].activated

\* C17: the activated flag is false before any call, true after every
\* activate(), false after every cancel(), whether the call returned Ok or
\* an error, and no other step changes it: it is true exactly when the last
\* call among activate() and cancel() was activate().
C17_FlagFollowsLastCall == ~snd[1].activated /\ [][FlagStep]_vars

C17_Witness ==
    /\ lastCall.op = "cancel"
    /\ lastCall.res = "err"
    /\ Before.activated
    /\ ~snd[1].activated

\* C18: a cold activate() first seeks to start_offset, then enters
\* Player::play, then makes the re-entry seek; a warm activate() makes no
\* seek.
C18_RewindFirst ==
    lastCall.op = "activate"
        => IF ~Before.activated
           THEN /\ Len(lastCall.calls) >= 2
                /\ lastCall.calls[1]
                      = [op |-> "seek", arg |-> snd[1].spec.start_offset]
                /\ lastCall.calls[2].op = "play"
                /\ lastCall.res = "ok"
                      => /\ Len(lastCall.calls) = 3
                         /\ lastCall.calls[3].op = "seek"
           ELSE \A i \in 1..Len(CalledOps) : CalledOps[i] # "seek"

\* C19: update() enters Player::play exactly when the Sound is activated,
\* looping and not playing(), and never seeks; a Sound that does not loop or
\* is not activated is left by update() as it was.
C19_UpdateRestartsOnlyLoops ==
    lastCall.op = "update"
        => /\ CalledOps = IF /\ Before.activated
                             /\ Before.spec.is_loop
                             /\ ~PlayerPlaying(Before)
                          THEN <<"play">> ELSE <<>>
           /\ snd[1].vtime = Before.vtime
           /\ (~Before.spec.is_loop \/ ~Before.activated) => snd[1] = Before

C19_Witness ==
    /\ lastCall.op = "update"
    /\ lastCall.res = "err"
    /\ CalledOps = <<"play">>
    /\ Before.vstate = "Ended"
    /\ snd[1].vpend = "none"

\* C20: right after an update() of an activated looping Sound that returned
\* Ok, done() is false; when playing() was false at the call, play was
\* requested from the driver.
C20_LoopNeverDone ==
    (/\ lastCall.op = "update"
     /\ lastCall.res = "ok"
     /\ Before.activated
     /\ Before.spec.is_loop)
        => /\ ~SoundDone(snd[1])
           /\ ~PlayerPlaying(Before)
                 => /\ snd[1].vpend = "play"
                    /\ snd[1].vreq = "play"

C20_Witness ==
    /\ lastCall.op = "update"
    /\ lastCall.res = "ok"
    /\ Before.activated
    /\ Before.spec.is_loop
    /\ Before.vstate = "Ended"
    /\ SoundDone(Before)
    /\ ~SoundDone(snd[1])

\* The dirty window of the last cancel() that returned Ok is over, no
\* activate() has followed it, and the driver has applied every request it
\* was sent.
CancelSettled ==
    /\ IsSome(snd[1].cancelled)
    /\ Unwrap(snd[1].cancelled).at >= PAUSE_DIRTY_TIMEOUT
    /\ snd[1].vpend = "none"

\* C21: after a cancel() that returned Ok, once its dirty window is over
\* and until the next activate(), the driver is not in a playing state and
\* done() is true, however late the driver applied the requests it was
\* sent, also when the pause of that cancel() was skipped.
C21_SilentAfterCancel ==
    CancelSettled
        => /\ snd[1].vstate \notin {"Opening", "Buffering", "Playing"}
           /\ SoundDone(snd[1])
====
